---- MODULE Spec2Model ----
(***************************************************************************)
(* Model of backend/match.py: the eyewear matching pipeline.               *)
(*                                                                         *)
(* One match request is the call chain                                     *)
(*   main -> clip_match -> validate_glasses_image                          *)
(*                      -> (embedding matcher | simple_match               *)
(*                                               -> match_by_shape)        *)
(* and is modelled as a sequential program whose position is pc.          *)
(*                                                                         *)
(* Units.  Probabilities and confidences are integers in thousandths      *)
(* (1000 = 1.0); cosine similarities are integers in ten-thousandths      *)
(* (10000 = 1.0); fill ratio and circularity are in hundredths.  Ratios of *)
(* two pixel counts are compared by cross-multiplication.                 *)
(* File names are strings; substring search, lower-casing, splitext and    *)
(* sorting are computed on them character by character.                    *)
(***************************************************************************)
EXTENDS Integers, Sequences, FiniteSets, TLC

(***************************************************************************)
(* Bounds of the model.                                                    *)
(***************************************************************************)
\* Largest number of image paths on the command line of one request.
MaxImages == 2
\* Catalog-index entries whose similarity the oracle chooses freely; entries
\* past this position get the lowest similarity.
MaxSimIdx == 2
\* Largest number of representative frame pixels of one image when
\* extract_glasses_properties is applied on its own.
MaxPixels == 2

(***************************************************************************)
(* Program constants.                                                      *)
(***************************************************************************)
\* MIN_GLASSES_THRESHOLD = 0.25
MIN_GLASSES_THRESHOLD == 250
\* len(refs) > 50 in clip_match
OnTheFlyLimit == 50
\* matching_models = glasses_models[:10] / models[:10]
FirstN == 10
\* sims_boosted[i] += 0.15
BoostUp == 1500
\* sims_boosted[i] -= 0.1
BoostDown == 1000

\* Python's None.
None == "<None>"

(***************************************************************************)
(* Strings.                                                                *)
(***************************************************************************)
\* The characters file names are made of, in code-point order.
ASCII == "-.0123456789ABCDEFGHIJKLMNOPQRSTUVWXYZ_abcdefghijklmnopqrstuvwxyz"

CharAt(s, i) == SubSeq(s, i, i)

\* Position of character c in string s, 0 when absent.
IndexOf(c, s) ==
    IF \E i \in 1..Len(s) : CharAt(s, i) = c
    THEN CHOOSE i \in 1..Len(s) : CharAt(s, i) = c
    ELSE 0

\* The lower-case form of each upper-case letter.
LowerOf ==
    [A |-> "a", B |-> "b", C |-> "c", D |-> "d", E |-> "e", F |-> "f", G |-> "g",
     H |-> "h", I |-> "i", J |-> "j", K |-> "k", L |-> "l", M |-> "m", N |-> "n",
     O |-> "o", P |-> "p", Q |-> "q", R |-> "r", S |-> "s", T |-> "t", U |-> "u",
     V |-> "v", W |-> "w", X |-> "x", Y |-> "y", Z |-> "z"]

\* str.lower() of one character.
LowerChar(c) == IF c \in DOMAIN LowerOf THEN LowerOf[c] ELSE c

RECURSIVE Lower(_)
\* str.lower()
Lower(s) == IF Len(s) = 0 THEN "" ELSE LowerChar(Head(s)) \o Lower(Tail(s))

\* The Python test `kw in s` on strings.
Contains(kw, s) ==
    \E i \in 1..(Len(s) - Len(kw) + 1) : SubSeq(s, i, i + Len(kw) - 1) = kw

RECURSIVE StrLess(_, _)
\* a < b on Python strings (code-point lexicographic order).
StrLess(a, b) ==
    IF b = "" THEN FALSE
    ELSE IF a = "" THEN TRUE
    ELSE IF Head(a) = Head(b) THEN StrLess(Tail(a), Tail(b))
    ELSE IndexOf(Head(a), ASCII) < IndexOf(Head(b), ASCII)

\* Position of the last "." of s that is not its first character, 0 if none.
LastDot(s) ==
    IF \E i \in 2..Len(s) : CharAt(s, i) = "."
    THEN CHOOSE i \in 2..Len(s) :
            CharAt(s, i) = "." /\ \A j \in (i + 1)..Len(s) : CharAt(s, j) # "."
    ELSE 0

\* os.path.splitext(s)[0]
SplitExtRoot(s) == IF LastDot(s) = 0 THEN s ELSE SubSeq(s, 1, LastDot(s) - 1)

\* os.path.splitext(s)[1]
SplitExtExt(s) == IF LastDot(s) = 0 THEN "" ELSE SubSeq(s, LastDot(s), Len(s))

(***************************************************************************)
(* Sequences.                                                              *)
(***************************************************************************)
\* seq[:n]
Take(seq, n) == SubSeq(seq, 1, IF Len(seq) < n THEN Len(seq) ELSE n)

RECURSIVE Insert(_, _)
\* Insert string x into the sorted sequence seq.
Insert(x, seq) ==
    IF seq = <<>> THEN <<x>>
    ELSE IF StrLess(Head(seq), x) THEN <<Head(seq)>> \o Insert(x, Tail(seq))
    ELSE <<x>> \o seq

RECURSIVE Sorted(_)
\* sorted(seq) on strings
Sorted(seq) == IF seq = <<>> THEN <<>> ELSE Insert(Head(seq), Sorted(Tail(seq)))

RECURSIVE SumSeq(_)
SumSeq(seq) == IF seq = <<>> THEN 0 ELSE Head(seq) + SumSeq(Tail(seq))

\* The subsequence of seq whose elements satisfy Test.
Filter(seq, Test(_)) == SelectSeq(seq, Test)

(***************************************************************************)
(* Arithmetic on ratios.                                                   *)
(***************************************************************************)
Max2(a, b) == IF a > b THEN a ELSE b
Min2(a, b) == IF a < b THEN a ELSE b

\* num/den rounded to the nearest integer, ties to even: round() on the
\* non-negative ratio num/den.
RoundDiv(num, den) ==
    LET q == num \div den
        r == num % den
    IN  IF 2 * r < den THEN q
        ELSE IF 2 * r > den THEN q + 1
        ELSE IF q % 2 = 0 THEN q ELSE q + 1

RECURSIVE ISqrtIn(_, _, _)
\* The largest k in lo..hi with k*k <= v (lo*lo <= v is required).
ISqrtIn(lo, hi, v) ==
    IF lo >= hi THEN lo
    ELSE LET mid == (lo + hi + 1) \div 2
         IN  IF mid * mid <= v THEN ISqrtIn(mid, hi, v) ELSE ISqrtIn(lo, mid - 1, v)

\* floor(sqrt(v)) for 0 <= v.
ISqrt(v) == ISqrtIn(0, v, v)

(***************************************************************************)
(* Uploaded images.  An image is described by what the pipeline measures   *)
(* on it:                                                                  *)
(*   ok     Image.open(path) succeeds                                      *)
(*   g, ng  the classifier's summed probability of the glasses prompts     *)
(*          and of the non-glasses prompts (one softmax, so g + ng = 1)    *)
(*   det    detect_glasses_shape's measurements at 200x200: any dark       *)
(*          pixel, bounding box w x h, fill ratio, circularity             *)
(*   raw    analyze_frame_shape's measurements at 100x100 on the image as  *)
(*          uploaded: any pixel < 100, bounding box, edge scores           *)
(*   clean  the same measurements on remove_background's output: the same  *)
(*          dark pixels, other edges                                       *)
(*   fpix   the frame pixels (10 < brightness < 100) of the 100x100 copy,  *)
(*          as equally weighted representative colours; <<>> when the      *)
(*          image has at most 10 of them                                   *)
(*   lens   mean colour of the tint pixels of the centre crop; <<>> when   *)
(*          the image has at most 5 of them                                *)
(***************************************************************************)
\* Frontal photo of round glasses.
ImgRound ==
    [ok |-> TRUE, g |-> 900, ng |-> 100,
     det |-> [dark |-> TRUE, w |-> 100, h |-> 80, fill |-> 40, circ |-> 200],
     raw |-> [dark |-> TRUE, w |-> 50, h |-> 40, hs |-> 30, vs |-> 30],
     clean |-> [dark |-> TRUE, w |-> 50, h |-> 40, hs |-> 30, vs |-> 30],
     fpix |-> << <<30, 30, 30>> >>, lens |-> <<60, 90, 120>>]

\* Aviator sunglasses on a light grey background.  Background removal turns
\* the background white away from the frame: the dark bounding box stays
\* (pixels below 100 are always kept) and a contour of new edges appears.
ImgAviator ==
    [ok |-> TRUE, g |-> 600, ng |-> 400,
     det |-> [dark |-> TRUE, w |-> 180, h |-> 60, fill |-> 55, circ |-> 100],
     raw |-> [dark |-> TRUE, w |-> 90, h |-> 30, hs |-> 10, vs |-> 20],
     clean |-> [dark |-> TRUE, w |-> 90, h |-> 30, hs |-> 50, vs |-> 40],
     fpix |-> << <<90, 60, 20>>, <<20, 15, 10>> >>, lens |-> <<>>]

\* Bright photo of something else: no dark pixels at all.
ImgOther ==
    [ok |-> TRUE, g |-> 100, ng |-> 900,
     det |-> [dark |-> FALSE, w |-> 0, h |-> 0, fill |-> 0, circ |-> 100],
     raw |-> [dark |-> FALSE, w |-> 0, h |-> 0, hs |-> 0, vs |-> 0],
     clean |-> [dark |-> FALSE, w |-> 0, h |-> 0, hs |-> 0, vs |-> 0],
     fpix |-> <<>>, lens |-> <<>>]

\* A file that cannot be decoded.
ImgCorrupt ==
    [ok |-> FALSE, g |-> 0, ng |-> 0,
     det |-> [dark |-> FALSE, w |-> 0, h |-> 0, fill |-> 0, circ |-> 100],
     raw |-> [dark |-> FALSE, w |-> 0, h |-> 0, hs |-> 0, vs |-> 0],
     clean |-> [dark |-> FALSE, w |-> 0, h |-> 0, hs |-> 0, vs |-> 0],
     fpix |-> <<>>, lens |-> <<>>]

ImagePool == {ImgRound, ImgAviator, ImgOther, ImgCorrupt}

\* The image lists a request can carry (sys.argv without the -- options).
ImageLists == UNION {[1..n -> ImagePool] : n \in 0..MaxImages}

(***************************************************************************)
(* Catalogs and files.                                                     *)
(***************************************************************************)
\* Lists an importing caller passes to set_available_models.
ModelsPool ==
    { <<>>,
      <<"round_black.glb", "aviator_gold.glb", "wayfarer_blue.glb">>,
      <<"chair.glb", "my_Glasses.glb", "eyewear_2.glb">> }

\* What models_cache.json can hold: absent, unparsable, a list of names, or
\* a list with an entry that is not a string.
CachePool ==
    { [kind |-> "missing", models |-> <<>>],
      [kind |-> "unparsable", models |-> <<>>],
      [kind |-> "list", models |-> <<"sport_wrap.glb", "cateye_red.glb">>],
      [kind |-> "list", models |-> <<>>],
      [kind |-> "nonstring", models |-> <<>>] }

\* os.listdir(REF_DIR) of a directory with more than 50 images.
BigDir == [i \in 1..(OnTheFlyLimit + 1) |->
              CharAt("0123456789", (i \div 10) + 1)
                 \o CharAt("0123456789", (i % 10) + 1) \o ".png"]

\* What reference_images can be: absent, or a directory listing in the
\* file system's order.
RefDirPool ==
    { [exists |-> FALSE, files |-> <<>>],
      [exists |-> TRUE,
       files |-> <<"wayfarer_black.PNG", "notes.txt", "vintage_square.jpeg",
                   "metal_round.jpg">>],
      [exists |-> TRUE, files |-> BigDir] }

\* What reference_embeddings.pt can be before any build: absent, unreadable
\* by torch.load, or an index {"features", "filenames"} without entries.
\* build_embeddings writes the indexes that have entries.
EmbFilePool ==
    { [kind |-> "missing", filenames |-> <<>>],
      [kind |-> "corrupt", filenames |-> <<>>],
      [kind |-> "index", filenames |-> <<>>] }

\* Cosine similarities the oracle can report, in ten-thousandths.
SimVals == {-10000, 9001, 10000}

\* sims for an index of n entries.
SimVectors(n) ==
    LET k == Min2(n, MaxSimIdx)
    IN  {[i \in 1..n |-> IF i <= k THEN f[i] ELSE -10000] : f \in [1..k -> SimVals]}

(***************************************************************************)
(* Exact ratios num/den (den > 0), for averages that are not integers.    *)
(***************************************************************************)
Rat(n, d) == [num |-> n, den |-> d]
RatGT(a, b) == a.num * b.den > b.num * a.den
RatGE(a, b) == a.num * b.den >= b.num * a.den
RatLT(a, b) == RatGT(b, a)
RatEq(a, b) == a.num * b.den = b.num * a.den

(***************************************************************************)
(* list_refs                                                               *)
(***************************************************************************)
ImageExts == {".jpg", ".jpeg", ".png", ".webp"}

\* list_refs(): the image files of REF_DIR, sorted; [] without the directory.
list_refs(dir) ==
    IF ~dir.exists THEN <<>>
    ELSE Sorted(SelectSeq(dir.files, LAMBDA f : SplitExtExt(Lower(f)) \in ImageExts))

(***************************************************************************)
(* validate_glasses_image                                                  *)
(***************************************************************************)
\* The images of the request that Image.open can read, in order.
LoadedImages(image_paths) == SelectSeq(image_paths, LAMBDA im : im.ok)

\* sum(scores) / len(scores) over the loaded images.
AvgGlasses(imgs) == Rat(SumSeq([i \in 1..Len(imgs) |-> imgs[i].g]), Len(imgs))
AvgNonGlasses(imgs) == Rat(SumSeq([i \in 1..Len(imgs) |-> imgs[i].ng]), Len(imgs))

\* A decision whose minimum threshold lies above one half.
IsValidHighThreshold(avg_g, avg_ng) ==
    RatGT(avg_g, avg_ng) /\ RatGE(avg_g, Rat(700, 1))

\* is_valid = avg_glasses_score > avg_non_glasses_score
\*            and avg_glasses_score >= MIN_GLASSES_THRESHOLD
IsValid(avg_g, avg_ng) ==
    RatGT(avg_g, avg_ng) /\ RatGE(avg_g, Rat(MIN_GLASSES_THRESHOLD, 1))

\* The reason chosen by the comparison of the two scores first.
RejectionReasonDominatedFirst(avg_g, avg_ng) ==
    IF IsValid(avg_g, avg_ng) THEN None
    ELSE IF RatGE(avg_ng, avg_g)
         THEN "Image appears to be something other than glasses"
         ELSE "Image does not appear to be eyeglasses"

\* The rejection_reason variant (the percentages of the text are left out).
RejectionReason(avg_g, avg_ng) ==
    IF IsValid(avg_g, avg_ng) THEN None
    ELSE IF RatLT(avg_g, Rat(MIN_GLASSES_THRESHOLD, 1))
         THEN "Image does not appear to be eyeglasses"
         ELSE "Image appears to be something other than glasses"

\* validate_glasses_image failing closed: a raising classifier rejects.
validate_fail_closed(image_paths, loaded, raises) ==
    IF ~loaded \/ raises
    THEN [valid |-> FALSE, confidence |-> Rat(0, 1), reason |-> "Validation unavailable"]
    ELSE LET imgs == LoadedImages(image_paths)
         IN  IF imgs = <<>>
             THEN [valid |-> FALSE, confidence |-> Rat(0, 1),
                   reason |-> "Could not load any images"]
             ELSE [valid |-> IsValid(AvgGlasses(imgs), AvgNonGlasses(imgs)),
                   confidence |-> AvgGlasses(imgs),
                   reason |-> RejectionReason(AvgGlasses(imgs), AvgNonGlasses(imgs))]

\* validate_glasses_image dividing by len(image_paths), unreadable images
\* included.
validate_over_all_paths(image_paths, loaded, raises) ==
    IF ~loaded
    THEN [valid |-> TRUE, confidence |-> Rat(1000, 1), reason |-> None]
    ELSE LET imgs == LoadedImages(image_paths)
             avg_g == Rat(AvgGlasses(imgs).num, Len(image_paths))
             avg_ng == Rat(AvgNonGlasses(imgs).num, Len(image_paths))
         IN  IF imgs = <<>>
             THEN [valid |-> FALSE, confidence |-> Rat(0, 1),
                   reason |-> "Could not load any images"]
             ELSE IF raises
             THEN [valid |-> TRUE, confidence |-> Rat(1000, 1), reason |-> None]
             ELSE [valid |-> IsValid(avg_g, avg_ng),
                   confidence |-> avg_g,
                   reason |-> RejectionReason(avg_g, avg_ng)]

\* validate_glasses_image(image_paths) -> (is_valid, confidence, reason).
\* loaded: load_clip() returned the oracle; raises: the oracle raises during
\* inference.
validate_glasses_image(image_paths, loaded, raises) ==
    IF ~loaded
    THEN [valid |-> TRUE, confidence |-> Rat(1000, 1), reason |-> None]
    ELSE LET imgs == LoadedImages(image_paths)
         IN  IF imgs = <<>>
             THEN [valid |-> FALSE, confidence |-> Rat(0, 1),
                   reason |-> "Could not load any images"]
             ELSE IF raises
             THEN [valid |-> TRUE, confidence |-> Rat(1000, 1), reason |-> None]
             ELSE [valid |-> IsValid(AvgGlasses(imgs), AvgNonGlasses(imgs)),
                   confidence |-> AvgGlasses(imgs),
                   reason |-> RejectionReason(AvgGlasses(imgs), AvgNonGlasses(imgs))]

(***************************************************************************)
(* extract_glasses_properties                                              *)
(***************************************************************************)
HexDigit(d) == CharAt("0123456789abcdef", d + 1)
\* f"{v:02x}" for 0 <= v <= 255
Hex2(v) == HexDigit(v \div 16) \o HexDigit(v % 16)
\* f"#{r:02x}{g:02x}{b:02x}"
HexColor(c) == "#" \o Hex2(c[1]) \o Hex2(c[2]) \o Hex2(c[3])

RECURSIVE InsertInt(_, _)
InsertInt(x, seq) ==
    IF seq = <<>> THEN <<x>>
    ELSE IF Head(seq) < x THEN <<Head(seq)>> \o InsertInt(x, Tail(seq))
    ELSE <<x>> \o seq

RECURSIVE SortInts(_)
SortInts(seq) == IF seq = <<>> THEN <<>> ELSE InsertInt(Head(seq), SortInts(Tail(seq)))

\* int(np.median(values)) of a non-empty sequence of non-negative integers.
MedianInt(values) ==
    LET s == SortInts(values)
        n == Len(s)
    IN  IF n % 2 = 1 THEN s[(n + 1) \div 2] ELSE (s[n \div 2] + s[n \div 2 + 1]) \div 2

Channel(pixels, c) == [i \in 1..Len(pixels) |-> pixels[i][c]]

\* np.median(dark_pixels, axis=0).astype(int)
MedianColor(pixels) == [c \in 1..3 |-> MedianInt(Channel(pixels, c))]

\* np.mean(colors, axis=0).astype(int)
MeanColor(colors) == [c \in 1..3 |-> SumSeq(Channel(colors, c)) \div Len(colors)]

RECURSIVE Concat(_)
\* The concatenation of a sequence of sequences.
Concat(seqs) == IF seqs = <<>> THEN <<>> ELSE Head(seqs) \o Concat(Tail(seqs))

\* The images whose processing does not raise inside the per-image try.
Readable(image_paths) == SelectSeq(image_paths, LAMBDA im : im.ok)

\* all_frame_colors: one median colour per image with enough frame pixels.
AllFrameColors(image_paths) ==
    LET withFrame == SelectSeq(Readable(image_paths), LAMBDA im : im.fpix # <<>>)
    IN  [i \in 1..Len(withFrame) |-> MedianColor(withFrame[i].fpix)]

\* all_frame_pixels: the frame pixels of those images, concatenated.
AllFramePixels(image_paths) ==
    LET withFrame == SelectSeq(Readable(image_paths), LAMBDA im : im.fpix # <<>>)
    IN  Concat([i \in 1..Len(withFrame) |-> withFrame[i].fpix])

\* all_lens_colors: one mean colour per image with enough tint pixels.
AllLensColors(image_paths) ==
    LET withLens == SelectSeq(Readable(image_paths), LAMBDA im : im.lens # <<>>)
    IN  [i \in 1..Len(withLens) |-> withLens[i].lens]

\* m*m times the population variance of values (m = Len(values)).
ScaledVar(values) ==
    LET m == Len(values)
    IN  m * SumSeq([i \in 1..m |-> values[i] * values[i]]) - SumSeq(values) * SumSeq(values)

\* 3 * brightness of each pixel (brightness = np.mean(pixel)).
Bright3(pixels) == [i \in 1..Len(pixels) |-> pixels[i][1] + pixels[i][2] + pixels[i][3]]

\* is_silver = brightness.mean() > 150 and np.std([r, g, b]) < 20, with
\* r, g, b the channel means of the m pixels.
IsSilver(pixels) ==
    LET m == Len(pixels)
        R == SumSeq(Channel(pixels, 1))
        G == SumSeq(Channel(pixels, 2))
        B == SumSeq(Channel(pixels, 3))
    IN  /\ SumSeq(Bright3(pixels)) > 450 * m
        /\ 3 * (R * R + G * G + B * B) - (R + G + B) * (R + G + B) < 3600 * m * m

\* is_gold = r > g > b and brightness_std > 30
IsGold(pixels) ==
    LET m == Len(pixels)
        R == SumSeq(Channel(pixels, 1))
        G == SumSeq(Channel(pixels, 2))
        B == SumSeq(Channel(pixels, 3))
    IN  R > G /\ G > B /\ ScaledVar(Bright3(pixels)) > 8100 * m * m

\* avg_std < 25 and brightness_std > 40; the channel deviations are rounded
\* down, m * (std_r + std_g + std_b) being compared with 75 * m.
LowStdHighBrightness(pixels) ==
    LET m == Len(pixels)
        std3 == ISqrt(ScaledVar(Channel(pixels, 1)))
                + ISqrt(ScaledVar(Channel(pixels, 2)))
                + ISqrt(ScaledVar(Channel(pixels, 3)))
    IN  std3 + 3 <= 75 * m /\ ScaledVar(Bright3(pixels)) > 14400 * m * m

\* The material test giving every metal frame the metalness 0.7.
FrameMaterialAlwaysShiny(pixels) ==
    IF pixels = <<>> THEN [frameMaterial |-> "plastic", frameMetalness |-> 10]
    ELSE IF IsSilver(pixels) \/ IsGold(pixels) \/ LowStdHighBrightness(pixels)
    THEN [frameMaterial |-> "metal", frameMetalness |-> 70]
    ELSE [frameMaterial |-> "plastic", frameMetalness |-> 10]

\* Frame material and metalness (hundredths) from the aggregated frame
\* pixels; pixels = <<>> stands for the fewer-than-11-samples case.
FrameMaterial(pixels) ==
    IF pixels = <<>> THEN [frameMaterial |-> "plastic", frameMetalness |-> 10]
    ELSE IF IsSilver(pixels) \/ IsGold(pixels) \/ LowStdHighBrightness(pixels)
    THEN [frameMaterial |-> "metal",
          frameMetalness |-> IF IsSilver(pixels) THEN 70 ELSE 50]
    ELSE [frameMaterial |-> "plastic", frameMetalness |-> 10]

\* min(0.85, max(0.25, s * 0.5 + 0.3)) rounded to hundredths, s the HSV
\* saturation (max - min) / max of colour c.
TintOpacity(c) ==
    LET hi == Max2(c[1], Max2(c[2], c[3]))
        lo == Min2(c[1], Min2(c[2], c[3]))
        x == IF hi = 0 THEN 30 ELSE RoundDiv(50 * (hi - lo) + 30 * hi, hi)
    IN  Min2(85, Max2(25, x))

\* The hard-coded defaults.
DefaultProperties ==
    [lensColor |-> "#3b82f6", frameColor |-> "#1a1a1a", tintOpacity |-> 50,
     frameScale |-> 100, frameMaterial |-> "plastic", frameMetalness |-> 10]

\* extract_glasses_properties colouring the frame from the placeholder pixel
\* [[50, 50, 50]] when no image gave a frame sample.
extract_placeholder_frame(image_paths) ==
    LET frames == AllFrameColors(image_paths)
        lenses == AllLensColors(image_paths)
        mat == FrameMaterial(AllFramePixels(image_paths))
    IN  [lensColor |-> IF lenses # <<>> THEN HexColor(MeanColor(lenses)) ELSE "#3b82f6",
         frameColor |-> IF frames # <<>> THEN HexColor(MeanColor(frames))
                        ELSE HexColor(<<50, 50, 50>>),
         tintOpacity |-> IF lenses # <<>> THEN TintOpacity(MeanColor(lenses)) ELSE 50,
         frameScale |-> 100,
         frameMaterial |-> mat.frameMaterial,
         frameMetalness |-> mat.frameMetalness]

\* extract_glasses_properties(image_paths); tintOpacity, frameScale and
\* frameMetalness in hundredths.
extract_glasses_properties(image_paths) ==
    LET frames == AllFrameColors(image_paths)
        lenses == AllLensColors(image_paths)
        mat == FrameMaterial(AllFramePixels(image_paths))
    IN  [lensColor |-> IF lenses # <<>> THEN HexColor(MeanColor(lenses)) ELSE "#3b82f6",
         frameColor |-> IF frames # <<>> THEN HexColor(MeanColor(frames)) ELSE "#1a1a1a",
         tintOpacity |-> IF lenses # <<>> THEN TintOpacity(MeanColor(lenses)) ELSE 50,
         frameScale |-> 100,
         frameMaterial |-> mat.frameMaterial,
         frameMetalness |-> mat.frameMetalness]

(***************************************************************************)
(* detect_glasses_shape                                                    *)
(***************************************************************************)
\* The decision tree with the aviator rule tested before the round rule.
ClassifyShapeAviatorFirst(d, circ) ==
    IF 10 * d.w > 25 * d.h THEN "aviator"
    ELSE IF circ > 150 \/ (10 * d.w < 15 * d.h /\ d.fill < 50) THEN "round"
    ELSE IF 10 * d.w > 18 * d.h THEN (IF d.fill > 60 THEN "wayfarer" ELSE "sport")
    ELSE IF 10 * d.w > 13 * d.h THEN (IF d.fill > 70 THEN "square" ELSE "cat_eye")
    ELSE "round"

\* The decision tree on one image's measurements d (aspect_ratio = w / h,
\* fill in hundredths); circ is the circularity in hundredths.
ClassifyShape(d, circ) ==
    IF circ > 150 \/ (10 * d.w < 15 * d.h /\ d.fill < 50) THEN "round"
    ELSE IF 10 * d.w > 25 * d.h THEN "aviator"
    ELSE IF 10 * d.w > 18 * d.h THEN (IF d.fill > 60 THEN "wayfarer" ELSE "sport")
    ELSE IF 10 * d.w > 13 * d.h THEN (IF d.fill > 70 THEN "square" ELSE "cat_eye")
    ELSE "round"

\* The image contributes a decision: it has dark pixels and its bounding box
\* has non-zero height and width.
YieldsShape(im) == im.det.dark /\ im.det.h # 0 /\ im.det.w # 0

\* circularity is measured only when h > 10 and w > 10, else 1.0
Circularity(d) == IF d.h > 10 /\ d.w > 10 THEN d.circ ELSE 100

\* shapes_detected for images that can all be opened.
ShapesDetected(image_paths) ==
    LET yielding == SelectSeq(image_paths, YieldsShape)
    IN  [i \in 1..Len(yielding) |->
            ClassifyShape(yielding[i].det, Circularity(yielding[i].det))]

\* Number of occurrences of x in seq.
Count(x, seq) == Cardinality({i \in 1..Len(seq) : seq[i] = x})

\* Counter(seq).most_common(1)[0][0]: the most frequent element, the first
\* encountered among the most frequent ones.
MostCommon(seq) ==
    LET best == CHOOSE i \in 1..Len(seq) :
                    /\ \A j \in 1..Len(seq) : Count(seq[j], seq) <= Count(seq[i], seq)
                    /\ \A j \in 1..(i - 1) : Count(seq[j], seq) < Count(seq[i], seq)
    IN  seq[best]

\* detect_glasses_shape(image_paths).  Image.open is not guarded per image:
\* one unreadable image raises out of the loop into the function's except.
detect_glasses_shape(image_paths) ==
    IF \E i \in 1..Len(image_paths) : ~image_paths[i].ok THEN "round"
    ELSE IF ShapesDetected(image_paths) # <<>> THEN MostCommon(ShapesDetected(image_paths))
    ELSE "round"

(***************************************************************************)
(* remove_background, analyze_frame_shape                                  *)
(***************************************************************************)
\* remove_background(image): the suppressed copy, or the image itself when
\* scipy is missing or the filter raises (works = FALSE).
remove_background(im, works) == IF works THEN [im EXCEPT !.raw = im.clean] ELSE im

\* analyze_frame_shape(image), on the measurements the image carries.
analyze_frame_shape(im) ==
    LET m == im.raw
        \* width / max(height, 1), 1.5 without dark pixels
        aspect_ratio == IF m.dark THEN Rat(m.w, Max2(m.h, 1)) ELSE Rat(15, 10)
    IN  [aspect_ratio |-> aspect_ratio,
         is_rectangular |-> RatGT(aspect_ratio, Rat(16, 10)) /\ 10 * m.hs > 8 * m.vs,
         is_round |-> RatLT(aspect_ratio, Rat(14, 10)),
         horizontal_score |-> m.hs,
         vertical_score |-> m.vs]

(***************************************************************************)
(* match_by_shape                                                          *)
(***************************************************************************)
SHAPE_KEYWORDS ==
    [round |-> <<"round", "circular", "circle", "oval", "metal_round", "lennon",
                 "vintage", "retro", "classic">>,
     square |-> <<"square", "rectangular", "rectangle", "box", "wayfarer", "nerd",
                  "hipster">>,
     cat_eye |-> <<"cat_eye", "cat-eye", "cateye", "cat">>,
     aviator |-> <<"aviator", "pilot", "teardrop", "ray_ban", "rayban">>,
     wayfarer |-> <<"wayfarer", "classic", "black_glasses">>,
     oversized |-> <<"oversized", "big", "large", "xl">>,
     rimless |-> <<"rimless", "frameless", "minimal">>,
     sport |-> <<"sport", "athletic", "wrap", "shield", "oakley">>,
     vintage |-> <<"vintage", "retro", "old", "prada">>,
     futuristic |-> <<"futuristic", "modern", "cyber", "tech", "vr">>,
     heart |-> <<"heart", "love">>,
     geometric |-> <<"geometric", "hexagon", "octagon", "polygon">>]

\* SHAPE_KEYWORDS.get(detected_shape, [detected_shape])
KeywordsOf(shape) ==
    IF shape \in DOMAIN SHAPE_KEYWORDS THEN SHAPE_KEYWORDS[shape] ELSE <<shape>>

\* any(kw in name.lower() for kw in keywords)
HasKeyword(name, keywords) ==
    LET lower == Lower(name)
    IN  \E k \in 1..Len(keywords) : Contains(keywords[k], lower)

\* The models whose lower-cased name contains a keyword of the shape.
ShapeMatches(models, shape) ==
    SelectSeq(models, LAMBDA m : HasKeyword(m, KeywordsOf(shape)))

\* The models that look like eyewear by name.
GlassesModels(models) ==
    SelectSeq(models, LAMBDA m : HasKeyword(m, <<"glasses", "spectacle", "eyewear">>))

\* matching_models after the three tiers.
MatchingModels(models, shape) ==
    IF ShapeMatches(models, shape) # <<>> THEN ShapeMatches(models, shape)
    ELSE IF GlassesModels(models) # <<>> THEN Take(GlassesModels(models), FirstN)
    ELSE Take(models, FirstN)

\* best_model taken from the end of the candidates.
BestModelLast(models, shape) ==
    IF MatchingModels(models, shape) # <<>>
    THEN MatchingModels(models, shape)[Len(MatchingModels(models, shape))]
    ELSE models[1]

\* best_model = matching_models[0] if matching_models else models[0]
BestModel(models, shape) ==
    IF MatchingModels(models, shape) # <<>> THEN MatchingModels(models, shape)[1]
    ELSE models[1]

\* A confidence that follows the detected shape.
ShapeConfidenceByShape(shape) == IF shape = "round" THEN 750 ELSE 600

\* "confidence": 0.75 if detected_shape != 'classic' else 0.5
ShapeConfidence(shape) == IF shape # "classic" THEN 750 ELSE 500

\* get_models_from_file()
get_models_from_file(cache) == IF cache.kind = "list" THEN cache.models ELSE <<>>

\* The catalog always read from models_cache.json.
ModelsForCacheOnly(available, cache) == get_models_from_file(cache)

\* models = AVAILABLE_MODELS if AVAILABLE_MODELS else get_models_from_file()
ModelsFor(available, cache) ==
    IF available # <<>> THEN available ELSE get_models_from_file(cache)

\* A function's `return None`.
Nothing == [none |-> TRUE]

\* match_by_shape(image_paths, properties): the result dict, or Nothing for
\* None.  A cache list with a non-string entry is truthy and makes
\* model.lower() raise, which the function's except turns into None.
match_by_shape(image_paths, properties, available, cache) ==
    LET detected_shape == detect_glasses_shape(image_paths)
        models == ModelsFor(available, cache)
    IN  IF available = <<>> /\ cache.kind = "nonstring" THEN Nothing
        ELSE IF models = <<>> THEN Nothing
        ELSE [best_model |-> BestModel(models, detected_shape),
              confidence |-> ShapeConfidence(detected_shape),
              source_image |-> "shape_detection",
              matched |-> TRUE,
              method |-> "shape_match",
              detected_shape |-> detected_shape] @@ properties

(***************************************************************************)
(* The embedding matcher's ranking                                         *)
(***************************************************************************)
rectangular_keywords ==
    <<"rayban", "ray_ban", "wayfarer", "black_glasses", "rectangular", "square",
      "nerd", "hipster", "reading">>
round_keywords == <<"round", "circle", "metal_round", "lennon", "vintage">>

RECURSIVE KeywordLoopStacking(_, _, _, _)
\* The keyword loop without its break: every keyword found adds delta.
KeywordLoopStacking(score, keywords, ref_lower, delta) ==
    IF keywords = <<>> THEN score
    ELSE KeywordLoopStacking(
             IF Contains(Head(keywords), ref_lower) THEN score + delta ELSE score,
             Tail(keywords), ref_lower, delta)

RECURSIVE KeywordLoop(_, _, _, _)
\* for kw in keywords: if kw in ref_lower: score += delta; break
KeywordLoop(score, keywords, ref_lower, delta) ==
    IF keywords = <<>> THEN score
    ELSE IF Contains(Head(keywords), ref_lower) THEN score + delta
    ELSE KeywordLoop(score, Tail(keywords), ref_lower, delta)

\* The change of one reference's score for the uploaded shape: the boost
\* loop, then the penalty loop.
ShapeBoost(ref_name, uploaded_shape) ==
    LET ref_lower == Lower(ref_name)
    IN  IF uploaded_shape.is_rectangular
        THEN KeywordLoop(KeywordLoop(0, rectangular_keywords, ref_lower, BoostUp),
                         round_keywords, ref_lower, 0 - BoostDown)
        ELSE IF uploaded_shape.is_round
        THEN KeywordLoop(KeywordLoop(0, round_keywords, ref_lower, BoostUp),
                         rectangular_keywords, ref_lower, 0 - BoostDown)
        ELSE 0

\* sims_boosted
SimsBoosted(sims, ref_filenames, uploaded_shape) ==
    [i \in 1..Len(sims) |-> sims[i] + ShapeBoost(ref_filenames[i], uploaded_shape)]
        \o <<>>

\* torch.argmax(scores): the first index of the maximum (scores not empty).
ArgMax(scores) ==
    CHOOSE i \in 1..Len(scores) :
        /\ \A j \in 1..Len(scores) : scores[j] <= scores[i]
        /\ \A j \in 1..(i - 1) : scores[j] < scores[i]

\* best_idx
BestIdx(sims, ref_filenames, uploaded_shape) ==
    ArgMax(SimsBoosted(sims, ref_filenames, uploaded_shape))

\* round((best_score + 1.0) / 2.0, 3) in thousandths, best_score in
\* ten-thousandths.
Confidence(best_score) == RoundDiv(best_score + 10000, 20)

\* The clip_cached result with the confidence taken from the boosted score.
ClipResultBoostedConfidence(sims, ref_filenames, uploaded_shape, properties) ==
    LET best_idx == BestIdx(sims, ref_filenames, uploaded_shape)
        best_ref == ref_filenames[best_idx]
    IN  [best_model |-> SplitExtRoot(best_ref) \o ".glb",
         confidence |->
             Confidence(SimsBoosted(sims, ref_filenames, uploaded_shape)[best_idx]),
         source_image |-> best_ref,
         matched |-> TRUE,
         method |-> "clip_cached"] @@ properties

\* The clip_cached result dict.
ClipResult(sims, ref_filenames, uploaded_shape, properties) ==
    LET best_idx == BestIdx(sims, ref_filenames, uploaded_shape)
        best_ref == ref_filenames[best_idx]
    IN  [best_model |-> SplitExtRoot(best_ref) \o ".glb",
         confidence |-> Confidence(sims[best_idx]),
         source_image |-> best_ref,
         matched |-> TRUE,
         method |-> "clip_cached"] @@ properties

(***************************************************************************)
(* Result records.  confidence and validation_confidence are in            *)
(* thousandths.  json.dumps of a dict of strings, booleans and numbers is  *)
(* a lossless encoding, so an emitted record is kept as the dict itself.   *)
(***************************************************************************)
\* clip_match's return on a rejected upload.
RejectedResult(v) ==
    [error |-> v.reason,
     matched |-> FALSE,
     method |-> "validation_rejected",
     validation_confidence |-> RoundDiv(v.confidence.num, v.confidence.den)]

\* main's record for an empty image list.
NoImagesResult == [error |-> "No images", matched |-> FALSE]

\* The __main__ handler's record for an escaped exception e.
CrashResult(e) == [error |-> e, matched |-> FALSE, method |-> "crash_handler"]

\* simple_match's return when reference images exist.
FallbackResult(refs, properties) ==
    [best_model |-> SplitExtRoot(refs[1]) \o ".glb",
     confidence |-> 600,
     source_image |-> refs[1],
     matched |-> TRUE,
     method |-> "fallback"] @@ properties

\* simple_match's last return.
DefaultResult(properties) ==
    [best_model |-> "default.glb",
     confidence |-> 500,
     source_image |-> "none",
     matched |-> TRUE,
     method |-> "default"] @@ properties

(***************************************************************************)
(* State.                                                                  *)
(***************************************************************************)
VARIABLES
    AVAILABLE_MODELS,   \* the module global
    embFile,            \* reference_embeddings.pt
    refDir,             \* the reference_images directory
    pc,                 \* position of the process
    image_paths,        \* the request's images
    validation,         \* validate_glasses_image's return in clip_match
    ref_filenames,      \* data["filenames"] once the index is loaded
    up_imgs,            \* the background-suppressed uploads
    sims,               \* similarity of the query to each index entry
    refs,               \* list_refs() as last read
    properties,         \* simple_match's properties
    models,             \* match_by_shape's models
    result,             \* the dict main is about to print
    outputs,            \* the records printed on stdout for this request
    env,                \* what the environment did when this request asked
    trail               \* the steps this request has run, in order

vars == <<AVAILABLE_MODELS, embFile, refDir, pc, image_paths, validation,
          ref_filenames, up_imgs, sims, refs, properties, models, result, outputs,
          env, trail>>

disk == <<embFile, refDir>>
locals == <<validation, ref_filenames, up_imgs, sims, refs, properties, models, result>>

\* Nothing asked of the environment yet.
\*   clip_v   load_clip() in validate_glasses_image: "loaded" | "absent"
\*   infer    the classifier call: "ok" | "raised"
\*   clip_m   load_clip() in clip_match: "loaded" | "absent"
\*   listdir  os.listdir in the last list_refs(): "ok" | "raised"
\*   embed    opening and embedding the uploads: "ok" | "open_failed" (an
\*            upload could not be opened) | "raised" (the oracle raised)
\*   cache    the state of models_cache.json when match_by_shape ran
EnvUnused ==
    [clip_v |-> "unused", infer |-> "unused", clip_m |-> "unused",
     listdir |-> "unused", embed |-> "unused", cache |-> "unused"]

\* os.listdir can only fail on a directory that exists.
ListdirOutcomes == IF refDir.exists THEN {"ok", "raised"} ELSE {"ok"}

Init ==
    /\ AVAILABLE_MODELS = <<>>
    /\ embFile \in EmbFilePool
    /\ refDir \in RefDirPool
    /\ pc = "idle"
    /\ image_paths = <<>>
    /\ validation = Nothing
    /\ ref_filenames = <<>>
    /\ up_imgs = <<>>
    /\ sims = <<>>
    /\ refs = <<>>
    /\ properties = Nothing
    /\ models = <<>>
    /\ result = Nothing
    /\ outputs = <<>>
    /\ env = EnvUnused
    /\ trail = <<>>

(***************************************************************************)
(* Entry points.                                                           *)
(***************************************************************************)
\* set_available_models(models), called by an importing process between
\* requests.
set_available_models(new_models) ==
    /\ pc = "idle"
    /\ AVAILABLE_MODELS' = new_models
    /\ UNCHANGED <<disk, pc, image_paths, locals, outputs, env, trail>>

\* main() with "--build" in sys.argv.
MainBuild ==
    /\ pc = "idle"
    /\ pc' = "build"
    /\ trail' = <<"build">>
    /\ UNCHANGED <<AVAILABLE_MODELS, disk, image_paths, locals, outputs, env>>

\* build_embeddings() and main's print of {"ok": success}.  opens: every
\* reference image can be opened and embedded.
build_embeddings ==
    /\ pc = "build"
    /\ \E loaded \in {"loaded", "absent"}, lists \in ListdirOutcomes,
          opens \in BOOLEAN :
          /\ env' = [env EXCEPT !.clip_m = loaded,
                                !.listdir = IF loaded = "loaded" THEN lists ELSE @]
          /\ IF loaded = "absent"
             THEN /\ outputs' = Append(outputs, [ok |-> FALSE])
                  /\ pc' = "done"
                  /\ UNCHANGED <<embFile, result>>
             ELSE IF lists = "raised"
             THEN /\ result' = CrashResult("PermissionError")
                  /\ pc' = "crash"
                  /\ UNCHANGED <<embFile, outputs>>
             ELSE IF list_refs(refDir) = <<>> \/ ~opens
             THEN /\ outputs' = Append(outputs, [ok |-> FALSE])
                  /\ pc' = "done"
                  /\ UNCHANGED <<embFile, result>>
             ELSE /\ embFile' = [kind |-> "index", filenames |-> list_refs(refDir)]
                  /\ outputs' = Append(outputs, [ok |-> TRUE])
                  /\ pc' = "done"
                  /\ UNCHANGED result
    /\ UNCHANGED <<AVAILABLE_MODELS, refDir, image_paths, validation, ref_filenames,
                   up_imgs, sims, refs, properties, models, trail>>

\* main() without image arguments.
MainNoImages ==
    /\ pc = "idle"
    /\ outputs' = Append(outputs, NoImagesResult)
    /\ trail' = <<"main">>
    /\ pc' = "done"
    /\ UNCHANGED <<AVAILABLE_MODELS, disk, image_paths, locals, env>>

\* main() with images: result = clip_match(images) starts.
MainMatch(images) ==
    /\ pc = "idle"
    /\ images # <<>>
    /\ image_paths' = images
    /\ trail' = <<"main">>
    /\ pc' = "validate"
    /\ UNCHANGED <<AVAILABLE_MODELS, disk, locals, outputs, env>>

(***************************************************************************)
(* clip_match                                                              *)
(***************************************************************************)
\* is_valid, validation_confidence, rejection_reason =
\*     validate_glasses_image(image_paths)
\* The classifier can raise only when it is loaded and has an image to see.
Validate ==
    /\ pc = "validate"
    /\ \E loaded \in BOOLEAN :
       \E raises \in IF loaded /\ LoadedImages(image_paths) # <<>>
                     THEN BOOLEAN ELSE {FALSE} :
          /\ validation' = validate_glasses_image(image_paths, loaded, raises)
          /\ env' = [env EXCEPT
                       !.clip_v = IF loaded THEN "loaded" ELSE "absent",
                       !.infer = IF ~loaded \/ LoadedImages(image_paths) = <<>>
                                 THEN "unused"
                                 ELSE IF raises THEN "raised" ELSE "ok"]
    /\ trail' = Append(trail, "validate")
    /\ pc' = "validated"
    /\ UNCHANGED <<AVAILABLE_MODELS, disk, image_paths, ref_filenames, up_imgs, sims,
                   refs, properties, models, result, outputs>>

\* A rejection that is logged while matching goes on.
RejectKeepsMatching ==
    /\ pc = "validated"
    /\ ~validation.valid
    /\ pc' = "simple_match"
    /\ UNCHANGED <<AVAILABLE_MODELS, disk, image_paths, locals, outputs, env, trail>>

\* if not is_valid: return {...}
Reject ==
    /\ pc = "validated"
    /\ ~validation.valid
    /\ result' = RejectedResult(validation)
    /\ pc' = "emit"
    /\ UNCHANGED <<AVAILABLE_MODELS, disk, image_paths, validation, ref_filenames,
                   up_imgs, sims, refs, properties, models, outputs, env, trail>>

\* loaded = load_clip(); if not loaded: return simple_match(image_paths)
LoadClip ==
    /\ pc = "validated"
    /\ validation.valid
    /\ \E loaded \in {"loaded", "absent"} :
          /\ env' = [env EXCEPT !.clip_m = loaded]
          /\ pc' = IF loaded = "loaded" THEN "load_index" ELSE "simple_match"
    /\ trail' = Append(trail, "load_clip")
    /\ UNCHANGED <<AVAILABLE_MODELS, disk, image_paths, locals, outputs>>

\* Loading EMBEDDINGS_FILE, with the index of a small catalog built and saved
\* on the fly when the file gives no features.
LoadIndexBuildsOnTheFly ==
    /\ pc = "load_index"
    /\ IF embFile.kind = "index"
       THEN /\ ref_filenames' = embFile.filenames
            /\ pc' = "embed"
            /\ UNCHANGED <<embFile, refs, result, env>>
       ELSE \E lists \in ListdirOutcomes :
              /\ env' = [env EXCEPT !.listdir = lists]
              /\ IF lists = "raised"
                 THEN /\ result' = CrashResult("PermissionError")
                      /\ pc' = "crash"
                      /\ UNCHANGED <<embFile, ref_filenames, refs>>
                 ELSE IF Len(list_refs(refDir)) > OnTheFlyLimit
                 THEN /\ refs' = list_refs(refDir)
                      /\ pc' = "simple_match"
                      /\ UNCHANGED <<embFile, ref_filenames, result>>
                 ELSE /\ refs' = list_refs(refDir)
                      /\ embFile' = [kind |-> "index", filenames |-> list_refs(refDir)]
                      /\ ref_filenames' = list_refs(refDir)
                      /\ pc' = "embed"
                      /\ UNCHANGED result
    /\ trail' = Append(trail, "load_index")
    /\ UNCHANGED <<AVAILABLE_MODELS, refDir, image_paths, validation, up_imgs, sims,
                   properties, models, outputs>>

\* Loading EMBEDDINGS_FILE; without ref_feats both branches on len(refs)
\* return simple_match(image_paths).
LoadIndex ==
    /\ pc = "load_index"
    /\ IF embFile.kind = "index"
       THEN /\ ref_filenames' = embFile.filenames
            /\ pc' = "embed"
            /\ UNCHANGED <<refs, result, env>>
       ELSE \E lists \in ListdirOutcomes :
              /\ env' = [env EXCEPT !.listdir = lists]
              /\ IF lists = "ok"
                 THEN /\ refs' = list_refs(refDir)
                      /\ pc' = "simple_match"
                      /\ UNCHANGED <<ref_filenames, result>>
                 ELSE /\ result' = CrashResult("PermissionError")
                      /\ pc' = "crash"
                      /\ UNCHANGED <<ref_filenames, refs>>
    /\ trail' = Append(trail, "load_index")
    /\ UNCHANGED <<AVAILABLE_MODELS, disk, image_paths, validation, up_imgs, sims,
                   properties, models, outputs>>

\* Steps 2-3: open and clean every upload, embed, average, similarities.
\* Image.open is not guarded here, so an unreadable upload raises before the
\* oracle is called; scipy: remove_background works; embeds: the oracle
\* returns features.
EmbedImages ==
    /\ pc = "embed"
    /\ \E scipy \in BOOLEAN, embeds \in BOOLEAN :
          IF (\E i \in 1..Len(image_paths) : ~image_paths[i].ok) \/ ~embeds
          THEN /\ env' = [env EXCEPT !.embed =
                              IF \E i \in 1..Len(image_paths) : ~image_paths[i].ok
                              THEN "open_failed" ELSE "raised"]
               /\ pc' = "simple_match"
               /\ UNCHANGED <<up_imgs, sims>>
          ELSE /\ env' = [env EXCEPT !.embed = "ok"]
               /\ up_imgs' = [i \in 1..Len(image_paths) |->
                                 remove_background(image_paths[i], scipy)]
               /\ \E s \in SimVectors(Len(ref_filenames)) : sims' = s
               /\ pc' = "rank"
    /\ trail' = Append(trail, "embedding")
    /\ UNCHANGED <<AVAILABLE_MODELS, disk, image_paths, validation, ref_filenames,
                   refs, properties, models, result, outputs>>

\* Steps 4-6 with argmax outside the try block: an empty index crashes.
RankAndSelectUnguarded ==
    /\ pc = "rank"
    /\ IF sims = <<>>
       THEN /\ result' = CrashResult("RuntimeError")
            /\ pc' = "crash"
            /\ trail' = trail \o <<"shape_analysis">>
       ELSE /\ result' = ClipResult(sims, ref_filenames, analyze_frame_shape(up_imgs[1]),
                                    extract_glasses_properties(image_paths))
            /\ pc' = "emit"
            /\ trail' = trail \o <<"shape_analysis", "properties">>
    /\ UNCHANGED <<AVAILABLE_MODELS, disk, image_paths, validation, ref_filenames,
                   up_imgs, sims, refs, properties, models, outputs, env>>

\* Steps 4-6: shape analysis of up_imgs[0], boost, argmax, properties.
\* torch.argmax of an empty tensor raises, and the except clause returns
\* simple_match(image_paths).
RankAndSelect ==
    /\ pc = "rank"
    /\ IF sims = <<>>
       THEN /\ pc' = "simple_match"
            /\ trail' = trail \o <<"shape_analysis">>
            /\ UNCHANGED result
       ELSE /\ result' = ClipResult(sims, ref_filenames, analyze_frame_shape(up_imgs[1]),
                                    extract_glasses_properties(image_paths))
            /\ pc' = "emit"
            /\ trail' = trail \o <<"shape_analysis", "properties">>
    /\ UNCHANGED <<AVAILABLE_MODELS, disk, image_paths, validation, ref_filenames,
                   up_imgs, sims, refs, properties, models, outputs, env>>

(***************************************************************************)
(* simple_match                                                            *)
(***************************************************************************)
\* refs = list_refs(); properties = extract_glasses_properties(image_paths)
SimpleMatch ==
    /\ pc = "simple_match"
    /\ \E lists \in ListdirOutcomes :
          /\ env' = [env EXCEPT !.listdir = lists]
          /\ IF lists = "ok"
             THEN /\ refs' = list_refs(refDir)
                  /\ properties' = extract_glasses_properties(image_paths)
                  /\ pc' = "match_by_shape"
                  /\ trail' = trail \o <<"simple_match", "properties">>
                  /\ UNCHANGED result
             ELSE /\ result' = CrashResult("PermissionError")
                  /\ pc' = "crash"
                  /\ trail' = Append(trail, "simple_match")
                  /\ UNCHANGED <<refs, properties>>
    /\ UNCHANGED <<AVAILABLE_MODELS, disk, image_paths, validation, ref_filenames,
                   up_imgs, sims, models, outputs>>

\* match_by_shape tried again when it returns None.
MatchByShapeRetries ==
    /\ pc = "match_by_shape"
    /\ \E cache \in IF AVAILABLE_MODELS # <<>> THEN {CHOOSE c \in CachePool : TRUE}
                    ELSE CachePool :
          LET shape_result ==
                  match_by_shape(image_paths, properties, AVAILABLE_MODELS, cache)
          IN  /\ models' = ModelsFor(AVAILABLE_MODELS, cache)
              /\ env' = [env EXCEPT !.cache = IF AVAILABLE_MODELS # <<>> THEN "unread"
                                              ELSE cache.kind]
              /\ IF shape_result # Nothing
                 THEN result' = shape_result /\ pc' = "emit"
                 ELSE pc' = "match_by_shape" /\ UNCHANGED result
    /\ trail' = Append(trail, "match_by_shape")
    /\ UNCHANGED <<AVAILABLE_MODELS, disk, image_paths, validation, ref_filenames,
                   up_imgs, sims, refs, properties, outputs>>

\* shape_result = match_by_shape(image_paths, properties); returned if truthy.
\* models_cache.json is read only when AVAILABLE_MODELS is empty.
MatchByShape ==
    /\ pc = "match_by_shape"
    /\ \E cache \in IF AVAILABLE_MODELS # <<>> THEN {CHOOSE c \in CachePool : TRUE}
                    ELSE CachePool :
          LET shape_result ==
                  match_by_shape(image_paths, properties, AVAILABLE_MODELS, cache)
          IN  /\ models' = ModelsFor(AVAILABLE_MODELS, cache)
              /\ env' = [env EXCEPT !.cache = IF AVAILABLE_MODELS # <<>> THEN "unread"
                                              ELSE cache.kind]
              /\ IF shape_result # Nothing
                 THEN result' = shape_result /\ pc' = "emit"
                 ELSE pc' = "generic" /\ UNCHANGED result
    /\ trail' = Append(trail, "match_by_shape")
    /\ UNCHANGED <<AVAILABLE_MODELS, disk, image_paths, validation, ref_filenames,
                   up_imgs, sims, refs, properties, outputs>>

\* if refs: return {... "method": "fallback"}
GenericEntry ==
    /\ pc = "generic"
    /\ refs # <<>>
    /\ result' = FallbackResult(refs, properties)
    /\ trail' = Append(trail, "generic")
    /\ pc' = "emit"
    /\ UNCHANGED <<AVAILABLE_MODELS, disk, image_paths, validation, ref_filenames,
                   up_imgs, sims, refs, properties, models, outputs, env>>

\* return {... "method": "default"}
DefaultEntry ==
    /\ pc = "generic"
    /\ refs = <<>>
    /\ result' = DefaultResult(properties)
    /\ trail' = Append(trail, "default")
    /\ pc' = "emit"
    /\ UNCHANGED <<AVAILABLE_MODELS, disk, image_paths, validation, ref_filenames,
                   up_imgs, sims, refs, properties, models, outputs, env>>

(***************************************************************************)
(* main's output and the __main__ handler                                  *)
(***************************************************************************)
\* print(json.dumps(result))
Emit ==
    /\ pc = "emit"
    /\ outputs' = Append(outputs, result)
    /\ pc' = "done"
    /\ UNCHANGED <<AVAILABLE_MODELS, disk, image_paths, locals, env, trail>>

\* A handler that logs the traceback and prints nothing.
CrashHandlerSilent ==
    /\ pc = "crash"
    /\ trail' = Append(trail, "crash_handler")
    /\ pc' = "done"
    /\ UNCHANGED <<AVAILABLE_MODELS, disk, image_paths, locals, outputs, env>>

\* except Exception as e: print(json.dumps({...crash_handler})); sys.exit(0)
CrashHandler ==
    /\ pc = "crash"
    /\ outputs' = Append(outputs, result)
    /\ trail' = Append(trail, "crash_handler")
    /\ pc' = "done"
    /\ UNCHANGED <<AVAILABLE_MODELS, disk, image_paths, locals, env>>

\* The next request: the locals of the finished one are gone.
NextRequest ==
    /\ pc = "done"
    /\ pc' = "idle"
    /\ image_paths' = <<>>
    /\ validation' = Nothing
    /\ ref_filenames' = <<>>
    /\ up_imgs' = <<>>
    /\ sims' = <<>>
    /\ refs' = <<>>
    /\ properties' = Nothing
    /\ models' = <<>>
    /\ result' = Nothing
    /\ outputs' = <<>>
    /\ env' = EnvUnused
    /\ trail' = <<>>
    /\ UNCHANGED <<AVAILABLE_MODELS, disk>>

Next ==
    \/ \E new_models \in ModelsPool : set_available_models(new_models)
    \/ MainBuild
    \/ build_embeddings
    \/ MainNoImages
    \/ \E images \in ImageLists : MainMatch(images)
    \/ Validate
    \/ Reject
    \/ LoadClip
    \/ LoadIndex
    \/ EmbedImages
    \/ RankAndSelect
    \/ SimpleMatch
    \/ MatchByShape
    \/ GenericEntry
    \/ DefaultEntry
    \/ Emit
    \/ CrashHandler
    \/ NextRequest

Spec == Init /\ [][Next]_vars

(***************************************************************************)
(* The per-image functions applied on their own: detect_glasses_shape,    *)
(* extract_glasses_properties, analyze_frame_shape and                     *)
(* validate_glasses_image are functions of the images (and, for the last,  *)
(* of the classifier), and this specification calls each once on an input  *)
(* drawn from measurements on both sides of every threshold they test.     *)
(***************************************************************************)
\* Bounding-box widths for the height 20: the aspect ratios 1.0, 1.3, 1.35,
\* 1.45, 1.5, 1.8, 1.85, 2.5 and 2.55.
BoxWidths == {20, 26, 27, 29, 30, 36, 37, 50, 51}
\* Fill ratios and circularities, in hundredths.
FillRatios == {49, 50, 60, 61, 70, 71}
Circularities == {100, 150, 151}

\* A readable image with the given detect_glasses_shape measurements.
ShapeImage(w, h, fill, circ) ==
    [ok |-> TRUE, g |-> 900, ng |-> 100,
     det |-> [dark |-> TRUE, w |-> w, h |-> h, fill |-> fill, circ |-> circ],
     raw |-> [dark |-> FALSE, w |-> 0, h |-> 0, hs |-> 0, vs |-> 0],
     clean |-> [dark |-> FALSE, w |-> 0, h |-> 0, hs |-> 0, vs |-> 0],
     fpix |-> <<>>, lens |-> <<>>]

\* The grid, a box too small for the corner test (its circularity is not
\* measured), and boxes one pixel row or column wide.
ShapeImages ==
    {ShapeImage(w, 20, f, c) : w \in BoxWidths, f \in FillRatios, c \in Circularities}
        \cup {ShapeImage(20, 10, 60, 200), ShapeImage(0, 20, 100, 100),
              ShapeImage(20, 0, 100, 100)}

\* Frame pixels: every one has a brightness between 10 and 100, as the mask
\* (brightness > 10) & (brightness < 100) selects them.
PixelPool ==
    { <<30, 30, 30>>, <<99, 95, 90>>, <<14, 12, 10>>, <<95, 95, 95>>, <<12, 12, 12>>,
      <<10, 50, 95>> }

PixelSeqs == UNION {[1..n -> PixelPool] : n \in 1..MaxPixels}

\* A readable image with the given frame pixels and no dark region.
PixelImage(px) == [ImgOther EXCEPT !.fpix = px]

\* A readable image with the given analyze_frame_shape measurements: the
\* bounding box of its pixels below 100 on the 100 x 100 grid (width and
\* height are differences of indices, so one column gives the width 0) and
\* its edge scores.
FrameImage(w, h, hs, vs) ==
    [ImgOther EXCEPT !.raw = [dark |-> TRUE, w |-> w, h |-> h, hs |-> hs, vs |-> vs],
                     !.clean = [dark |-> TRUE, w |-> w, h |-> h, hs |-> hs, vs |-> vs]]

\* Boxes on both sides of 1.4 and 1.6, the widest and narrowest boxes with
\* two columns and two rows, a single column, a single row, a single pixel.
FrameImages ==
    {FrameImage(w, 50, hs, 20) : w \in {69, 70, 71, 79, 80, 81}, hs \in {16, 17}}
        \cup {FrameImage(1, 99, 0, 0), FrameImage(99, 1, 0, 0),
              FrameImage(0, 40, 0, 30), FrameImage(40, 0, 30, 0),
              FrameImage(0, 0, 0, 0)}

\* Glasses scores of one image, in thousandths, on both sides of 0.25 and
\* of 0.5.
GlassesProbs == {0, 100, 249, 250, 251, 499, 500, 501, 600, 1000}

\* A readable image the classifier gives the glasses score g: the two
\* scores are sums over the two parts of one softmax row, so the other is
\* 1 - g.
ScoredImage(g) == [ImgOther EXCEPT !.g = g, !.ng = 1000 - g]

\* One scored image, two of them, and one beside an unreadable file.
ScoredLists ==
    {<<ScoredImage(g)>> : g \in GlassesProbs}
        \cup {<<ScoredImage(g), ScoredImage(k)>> : g \in GlassesProbs, k \in GlassesProbs}
        \cup {<<ImgCorrupt, ScoredImage(g)>> : g \in GlassesProbs}

\* The image lists the functions are called on.
FnInputs ==
    {<<im>> : im \in ShapeImages}
        \cup {<<im>> : im \in FrameImages}
        \cup ScoredLists
        \cup {<<PixelImage(px)>> : px \in PixelSeqs}
        \cup {<<PixelImage(<<p>>), PixelImage(<<q>>)>> : p \in PixelPool, q \in PixelPool}
        \cup {<<ImgOther>>, <<ImgCorrupt>>}

FnInit ==
    /\ AVAILABLE_MODELS = <<>>
    /\ embFile = [kind |-> "missing", filenames |-> <<>>]
    /\ refDir = [exists |-> FALSE, files |-> <<>>]
    /\ pc = "call"
    /\ image_paths \in FnInputs
    /\ validation = Nothing
    /\ ref_filenames = <<>>
    /\ up_imgs = <<>>
    /\ sims = <<>>
    /\ refs = <<>>
    /\ properties = Nothing
    /\ models = <<>>
    /\ result = Nothing
    /\ outputs = <<>>
    /\ env = EnvUnused
    /\ trail = <<>>

\* detected_shape = detect_glasses_shape(image_paths)
CallDetectShape ==
    /\ pc = "call"
    /\ result' = [detected_shape |-> detect_glasses_shape(image_paths)]
    /\ trail' = <<"detect_glasses_shape">>
    /\ pc' = "shape_returned"
    /\ UNCHANGED <<AVAILABLE_MODELS, disk, image_paths, validation, ref_filenames,
                   up_imgs, sims, refs, properties, models, outputs, env>>

\* properties = extract_glasses_properties(image_paths)
CallExtractProperties ==
    /\ pc = "call"
    /\ properties' = extract_glasses_properties(image_paths)
    /\ trail' = <<"extract_glasses_properties">>
    /\ pc' = "properties_returned"
    /\ UNCHANGED <<AVAILABLE_MODELS, disk, image_paths, validation, ref_filenames,
                   up_imgs, sims, refs, models, result, outputs, env>>

\* uploaded_shape = analyze_frame_shape(image), on an image already opened
CallAnalyzeFrameShape ==
    /\ pc = "call"
    /\ image_paths[1].ok
    /\ result' = [uploaded_shape |-> analyze_frame_shape(image_paths[1])]
    /\ trail' = <<"analyze_frame_shape">>
    /\ pc' = "descriptor_returned"
    /\ UNCHANGED <<AVAILABLE_MODELS, disk, image_paths, validation, ref_filenames,
                   up_imgs, sims, refs, properties, models, outputs, env>>

\* is_valid, confidence, rejection_reason = validate_glasses_image(image_paths)
CallValidate ==
    /\ pc = "call"
    /\ \E loaded \in BOOLEAN :
       \E raises \in IF loaded /\ LoadedImages(image_paths) # <<>>
                     THEN BOOLEAN ELSE {FALSE} :
          /\ validation' = validate_glasses_image(image_paths, loaded, raises)
          /\ env' = [env EXCEPT
                       !.clip_v = IF loaded THEN "loaded" ELSE "absent",
                       !.infer = IF ~loaded \/ LoadedImages(image_paths) = <<>>
                                 THEN "unused"
                                 ELSE IF raises THEN "raised" ELSE "ok"]
    /\ trail' = <<"validate_glasses_image">>
    /\ pc' = "validation_returned"
    /\ UNCHANGED <<AVAILABLE_MODELS, disk, image_paths, ref_filenames, up_imgs, sims,
                   refs, properties, models, result, outputs>>

FnNext ==
    \/ CallDetectShape
    \/ CallExtractProperties
    \/ CallAnalyzeFrameShape
    \/ CallValidate

SpecFn == FnInit /\ [][FnNext]_vars

(***************************************************************************)
(* Vocabulary of the properties.                                           *)
(***************************************************************************)
InTrail(step) == \E i \in 1..Len(trail) : trail[i] = step

\* The process is serving (or has served) a match request, not a build.
MatchRequest == trail # <<>> /\ trail[1] = "main"

\* The request's record is decided: about to be printed, or printed.
Decided == pc \in {"emit", "done"} /\ MatchRequest /\ result # Nothing

\* The fields of a MatchResult.
MatchResultFields ==
    {"best_model", "confidence", "source_image", "matched", "method",
     "lensColor", "frameColor", "tintOpacity", "frameScale", "frameMaterial",
     "frameMetalness"}

RECURSIVE SumOver(_, _)
\* The sum of f[i] over the finite set S of indices.
SumOver(S, f) ==
    IF S = {} THEN 0
    ELSE LET i == CHOOSE j \in S : TRUE IN f[i] + SumOver(S \ {i}, f)

\* Indices of the request's images that can be opened.
OkIdx == {i \in 1..Len(image_paths) : image_paths[i].ok}

(***************************************************************************)
(* C1: every record a match request prints, on every return path of       *)
(* main -> clip_match -> simple_match -> match_by_shape, is a complete     *)
(* MatchResult: it has best_model, confidence, source_image, matched,      *)
(* method and the six ExtractedProperties fields, also on the              *)
(* validation-rejected path and on the no-images path.                     *)
(***************************************************************************)
C1_CompleteRecord ==
    (MatchRequest /\ ~InTrail("crash_handler")) =>
        \A i \in 1..Len(outputs) : MatchResultFields \subseteq DOMAIN outputs[i]

(***************************************************************************)
(* C2: a finished match request has printed exactly one record and none    *)
(* before it finished, whatever step failed; when an exception reached     *)
(* the outermost handler that record has an error field and                *)
(* matched = FALSE.                                                        *)
(***************************************************************************)
C2_ExactlyOneRecord ==
    MatchRequest =>
        /\ pc = "done" => Len(outputs) = 1
        /\ pc # "done" => outputs = <<>>
        /\ pc \in {"validate", "validated", "load_index", "embed", "rank",
                   "simple_match", "match_by_shape", "generic", "emit", "crash", "done"}
        /\ (pc = "done" /\ InTrail("crash_handler")) =>
              /\ "error" \in DOMAIN outputs[1]
              /\ outputs[1].matched = FALSE

\* A request whose list_refs raised inside simple_match has ended with the
\* handler's record.
C2_Witness ==
    /\ pc = "done"
    /\ MatchRequest
    /\ InTrail("simple_match")
    /\ InTrail("crash_handler")
    /\ outputs = <<CrashResult("PermissionError")>>

(***************************************************************************)
(* C3: validation fails open.  Without the classifier                      *)
(* validate_glasses_image returns (True, 1.0, None) for every image list,  *)
(* the empty list and lists of unreadable images included; with the        *)
(* classifier loaded but raising during inference it returns the same.     *)
(***************************************************************************)
FailOpen(v) == v.valid /\ RatEq(v.confidence, Rat(1000, 1)) /\ v.reason = None

C3_FailOpen ==
    \* the function is pure: its table is checked once, before any request
    /\ trail = <<>> =>
          \A imgs \in ImageLists : FailOpen(validate_glasses_image(imgs, FALSE, FALSE))
    /\ (validation # Nothing /\ env.clip_v = "absent") => FailOpen(validation)
    /\ (validation # Nothing /\ env.infer = "raised") => FailOpen(validation)

\* The classifier was absent and no image of the request could be read.
C3_Witness ==
    /\ pc = "validated"
    /\ env.clip_v = "absent"
    /\ OkIdx = {}
    /\ FailOpen(validation)

(***************************************************************************)
(* C4: with the classifier answering and at least one readable image, the  *)
(* upload is valid exactly when avg_glasses_score > avg_non_glasses_score  *)
(* and avg_glasses_score >= 0.25, both averages over the readable images   *)
(* only, and the returned confidence is avg_glasses_score.                 *)
(***************************************************************************)
C4_Decision ==
    (validation # Nothing /\ env.clip_v = "loaded" /\ env.infer = "ok") =>
        LET n == Cardinality(OkIdx)
            sum_g == SumOver(OkIdx, [i \in OkIdx |-> image_paths[i].g])
            sum_ng == SumOver(OkIdx, [i \in OkIdx |-> image_paths[i].ng])
        IN  /\ n > 0
            /\ validation.valid <=> (sum_g > sum_ng /\ sum_g >= 250 * n)
            /\ validation.confidence.num * n = sum_g * validation.confidence.den

\* Two readable images and an unreadable one would differ; here: a readable
\* and an unreadable image, scored on the readable one alone.
C4_Witness ==
    /\ pc = "validated"
    /\ env.infer = "ok"
    /\ Len(image_paths) = 2
    /\ Cardinality(OkIdx) = 1
    /\ validation.valid
    /\ RatEq(validation.confidence, Rat(900, 1))

(***************************************************************************)
(* C5: a rejected upload ends the request at once: the record has method   *)
(* validation_rejected, matched = FALSE and the rejection reason, no       *)
(* best_model is selected, and neither embedding nor shape analysis nor    *)
(* property extraction nor the fallback matcher ran.                       *)
(***************************************************************************)
C5_RejectShortCircuits ==
    (validation # Nothing /\ ~validation.valid /\ pc # "validated") =>
        /\ pc \in {"emit", "done"}
        /\ result.method = "validation_rejected"
        /\ result.matched = FALSE
        /\ result.error = validation.reason
        /\ result.error # None
        /\ "best_model" \notin DOMAIN result
        /\ trail = <<"main", "validate">>
        /\ up_imgs = <<>> /\ sims = <<>> /\ properties = Nothing /\ models = <<>>
        /\ pc = "done" => outputs = <<result>>

C5_Witness ==
    /\ pc = "done"
    /\ outputs # <<>>
    /\ "method" \in DOMAIN outputs[1]
    /\ outputs[1].method = "validation_rejected"
    /\ outputs[1].error = "Image appears to be something other than glasses"

(***************************************************************************)
(* C6: a clip_cached result names an index entry with the maximum boosted  *)
(* score, and its confidence is (s + 1) / 2 for that entry's unboosted     *)
(* similarity s (to the three decimals the record carries), so it lies in  *)
(* [0, 1] even when the boosted score leaves [-1, 1].                      *)
(***************************************************************************)
C6_ConfidenceFromUnboosted ==
    \* the result is final once ranking has returned; it is examined where it
    \* is about to be printed
    (pc = "emit" /\ Decided /\ "method" \in DOMAIN result
                 /\ result.method = "clip_cached") =>
        LET shape == analyze_frame_shape(up_imgs[1])
            boosted == [i \in 1..Len(sims) |->
                           sims[i] + ShapeBoost(ref_filenames[i], shape)] \o <<>>
        IN  /\ \E b \in 1..Len(sims) :
                  /\ \A j \in 1..Len(sims) : boosted[j] <= boosted[b]
                  /\ result.source_image = ref_filenames[b]
                  /\ 20 * result.confidence - (sims[b] + 10000) \in -10..10
            /\ result.confidence >= 0
            /\ result.confidence <= 1000

\* The winner's boosted score is above 1 and the boost changed the ranking:
\* another entry has the higher unboosted similarity.
C6_Witness ==
    /\ pc = "done"
    /\ outputs # <<>>
    /\ "method" \in DOMAIN outputs[1]
    /\ outputs[1].method = "clip_cached"
    /\ \E b \in 1..Len(sims) :
          /\ outputs[1].source_image = ref_filenames[b]
          /\ sims[b] + ShapeBoost(ref_filenames[b], analyze_frame_shape(up_imgs[1]))
                > 10000
          /\ \E j \in 1..Len(sims) : sims[j] > sims[b]

(***************************************************************************)
(* C7: once validation has passed, clip_match hands the request to         *)
(* simple_match when, checked in this order, the oracle cannot be loaded;  *)
(* the index is missing and the reference catalog has more than 50         *)
(* entries; an exception is raised in steps 2-5.  An index that loads      *)
(* without entries ends in simple_match too, not in a crash.               *)
(***************************************************************************)
HandedToFallback == pc = "simple_match" \/ InTrail("simple_match")

C7_FallbackTriggers ==
    MatchRequest =>
        /\ env.clip_m = "absent" =>
              /\ HandedToFallback
              /\ ~InTrail("load_index")
              /\ ~InTrail("embedding")
        /\ (InTrail("load_index") /\ embFile.kind # "index"
              /\ Len(refs) > OnTheFlyLimit) =>
              /\ HandedToFallback
              /\ ~InTrail("embedding")
        /\ env.embed \in {"raised", "open_failed"} => HandedToFallback
        /\ (InTrail("load_index") /\ embFile.kind = "index"
              /\ embFile.filenames = <<>> /\ pc \notin {"embed", "rank"}) =>
              /\ HandedToFallback
              /\ InTrail("crash_handler") => env.listdir = "raised"

\* argmax over an index without entries raised and simple_match took over.
C7_Witness ==
    /\ pc = "match_by_shape"
    /\ embFile.kind = "index"
    /\ embFile.filenames = <<>>
    /\ InTrail("shape_analysis")
    /\ InTrail("simple_match")

(***************************************************************************)
(* C8: the degradation chain only moves forward.  Within one request the   *)
(* stages embedding matcher, match_by_shape, generic entry and default     *)
(* entry are attempted at most once each and in that order; a stage that   *)
(* fails hands over to the next one; and with no catalog, no index entry   *)
(* and no reference image the request ends in the default entry.           *)
(***************************************************************************)
StageRank(step) ==
    CASE step = "embedding" -> 1
      [] step = "match_by_shape" -> 2
      [] step = "generic" -> 3
      [] step = "default" -> 4
      [] OTHER -> 0

EmptyCatalog ==
    /\ AVAILABLE_MODELS = <<>>
    /\ env.cache \in {"missing", "unparsable", "list"}
    /\ models = <<>>
    /\ refs = <<>>
    /\ embFile.filenames = <<>>

C9_TieredFirstCandidate ==
    \* the example of a pure function, checked once, before any request
    /\ trail = <<>> =>
          BestModel(<<"round_black.glb", "aviator_gold.glb", "wayfarer_blue.glb">>,
                    "aviator") = "aviator_gold.glb"
    /\ (Decided /\ "method" \in DOMAIN result /\ result.method = "shape_match") =>
          LET kws == KeywordsOf(result.detected_shape)
              all == 1..Len(models)
              low == [i \in all |-> Lower(models[i])] \o <<>>
              tier1 == {i \in all : \E k \in 1..Len(kws) :
                                        Contains(kws[k], low[i])}
              tier2 == {i \in all : \/ Contains("glasses", low[i])
                                    \/ Contains("spectacle", low[i])
                                    \/ Contains("eyewear", low[i])}
              tier3 == {i \in all : i <= 10}
              cands == IF tier1 # {} THEN tier1
                       ELSE IF tier2 # {} THEN tier2 ELSE tier3
          IN  /\ cands # {}
              /\ result.best_model = models[CHOOSE i \in cands : \A j \in cands : i <= j]

\* The second tier decided, and its first candidate is not the first entry
\* of the catalog.
C9_Witness ==
    /\ pc = "done"
    /\ outputs # <<>>
    /\ "method" \in DOMAIN outputs[1]
    /\ outputs[1].method = "shape_match"
    /\ models = <<"chair.glb", "my_Glasses.glb", "eyewear_2.glb">>
    /\ outputs[1].best_model = "my_Glasses.glb"

(***************************************************************************)
(* C10: every shape_match result has the fixed confidence 0.75, or 0.5     *)
(* when the detected shape is 'classic', whatever the images look like;    *)
(* and detected_shape is a field of shape_match results only.              *)
(***************************************************************************)
C10_FixedConfidence ==
    (Decided /\ "method" \in DOMAIN result) =>
        /\ result.method = "shape_match" =>
              result.confidence = IF result.detected_shape = "classic" THEN 500 ELSE 750
        /\ ("detected_shape" \in DOMAIN result) <=> (result.method = "shape_match")

\* A shape_match record for a detected aviator shape.
C10_Witness ==
    /\ pc = "done"
    /\ outputs # <<>>
    /\ "detected_shape" \in DOMAIN outputs[1]
    /\ outputs[1].detected_shape = "aviator"
    /\ outputs[1].best_model = "aviator_gold.glb"
    /\ outputs[1].confidence = 750

(***************************************************************************)
(* C11: an upload that cannot be opened is skipped by every per-image      *)
(* step.  Validation, property extraction and categorical shape detection  *)
(* return what they return on the readable images alone, and the embedding *)
(* step gives up on opening the uploads only when none of them is usable.  *)
(***************************************************************************)
C11_SkipsUnreadable ==
    /\ (validation # Nothing /\ env.clip_v = "loaded" /\ env.infer # "raised") =>
          validation = validate_glasses_image(LoadedImages(image_paths), TRUE, FALSE)
    /\ properties # Nothing =>
          properties = extract_glasses_properties(LoadedImages(image_paths))
    /\ (Decided /\ "detected_shape" \in DOMAIN result) =>
          result.detected_shape = detect_glasses_shape(LoadedImages(image_paths))
    /\ env.embed = "open_failed" => LoadedImages(image_paths) = <<>>

(***************************************************************************)
(* C12: when no submitted image yields a frame sample or a tint sample,    *)
(* unreadable images included, extract_glasses_properties returns exactly  *)
(* the hard-coded defaults frameColor #1a1a1a, lensColor #3b82f6,          *)
(* tintOpacity 0.5, frameScale 1.0, frameMaterial plastic and              *)
(* frameMetalness 0.1, and the record that is printed carries them.        *)
(***************************************************************************)
NoSamples(imgs) ==
    \A i \in 1..Len(imgs) : ~imgs[i].ok \/ (imgs[i].fpix = <<>> /\ imgs[i].lens = <<>>)

C12_DefaultProperties ==
    \* the function is pure: its table is checked once, before any request
    /\ trail = <<>> =>
          \A imgs \in ImageLists :
              NoSamples(imgs) =>
                  /\ extract_glasses_properties(imgs).frameColor = "#1a1a1a"
                  /\ extract_glasses_properties(imgs).lensColor = "#3b82f6"
                  /\ extract_glasses_properties(imgs).tintOpacity = 50
                  /\ extract_glasses_properties(imgs).frameScale = 100
                  /\ extract_glasses_properties(imgs).frameMaterial = "plastic"
                  /\ extract_glasses_properties(imgs).frameMetalness = 10
    /\ (properties # Nothing /\ NoSamples(image_paths)) => properties = DefaultProperties
    /\ (Decided /\ "lensColor" \in DOMAIN result /\ NoSamples(image_paths)) =>
          \A f \in DOMAIN DefaultProperties : result[f] = DefaultProperties[f]

\* A request of an undecodable file and a photo without dark or tinted
\* pixels has printed a record with the default properties.
C12_Witness ==
    /\ pc = "done"
    /\ image_paths = <<ImgCorrupt, ImgOther>>
    /\ outputs # <<>>
    /\ "frameColor" \in DOMAIN outputs[1]
    /\ outputs[1].frameColor = "#1a1a1a"
    /\ outputs[1].lensColor = "#3b82f6"
    /\ outputs[1].frameMetalness = 10

C14_ReasonVariant ==
    (validation # Nothing /\ env.clip_v = "loaded" /\ env.infer = "ok") =>
        LET n == Cardinality(OkIdx)
            sum_g == SumOver(OkIdx, [i \in OkIdx |-> image_paths[i].g])
            sum_ng == SumOver(OkIdx, [i \in OkIdx |-> image_paths[i].ng])
        IN  /\ validation.valid => validation.reason = None
            /\ sum_g < 250 * n =>
                  /\ ~validation.valid
                  /\ validation.reason = "Image does not appear to be eyeglasses"
            /\ validation.reason = "Image appears to be something other than glasses" =>
                  /\ ~validation.valid
                  /\ sum_g >= 250 * n
                  /\ sum_g <= sum_ng
            /\ ~validation.valid =>
                  validation.reason \in
                      {"Image does not appear to be eyeglasses",
                       "Image appears to be something other than glasses"}

\* One photo with glasses score 0.10 was rejected with the below-threshold
\* variant.
C14_Witness ==
    /\ pc = "done"
    /\ Len(image_paths) = 1
    /\ image_paths[1].g = 100
    /\ outputs # <<>>
    /\ outputs[1].matched = FALSE
    /\ outputs[1].error = "Image does not appear to be eyeglasses"

(***************************************************************************)
(* C15: the shape-informed adjustment.  When the coarse descriptor says    *)
(* rectangular, an index entry whose name contains a rectangular-family    *)
(* keyword gets +0.15 once, however many keywords it contains, and an      *)
(* entry whose name contains a round-family keyword gets -0.10 once; when  *)
(* it says round the two families are swapped; when neither flag is set    *)
(* the boosted scores are the similarities.                                *)
(***************************************************************************)
InFamily(name, family) ==
    LET lower == Lower(name)
    IN  \E k \in 1..Len(family) : Contains(family[k], lower)

C15_BoostOnce ==
    \* the scores are adjusted where the similarities have just been computed
    (pc = "rank" /\ sims # <<>>) =>
        LET shape == analyze_frame_shape(up_imgs[1])
            boosted == SimsBoosted(sims, ref_filenames, shape)
        IN  \A i \in 1..Len(sims) :
                LET rect == InFamily(ref_filenames[i], rectangular_keywords)
                    rnd == InFamily(ref_filenames[i], round_keywords)
                IN  boosted[i] - sims[i] =
                        IF shape.is_rectangular
                        THEN (IF rect THEN 1500 ELSE 0) - (IF rnd THEN 1000 ELSE 0)
                        ELSE IF shape.is_round
                        THEN (IF rnd THEN 1500 ELSE 0) - (IF rect THEN 1000 ELSE 0)
                        ELSE 0

\* A round upload: metal_round.jpg, with two round-family keywords, is
\* raised by 0.15, and vintage_square.jpeg, with a keyword of each family,
\* by 0.15 - 0.10.
C15_Witness ==
    /\ pc = "rank"
    /\ sims # <<>>
    /\ analyze_frame_shape(up_imgs[1]).is_round
    /\ \E i, j \in 1..Len(sims) :
          /\ ref_filenames[i] = "metal_round.jpg"
          /\ SimsBoosted(sims, ref_filenames, analyze_frame_shape(up_imgs[1]))[i]
                = sims[i] + 1500
          /\ ref_filenames[j] = "vintage_square.jpeg"
          /\ SimsBoosted(sims, ref_filenames, analyze_frame_shape(up_imgs[1]))[j]
                = sims[j] + 500

(***************************************************************************)
(* C16: the categorical decision tree is total and deterministic.  Every   *)
(* (aspect_ratio, fill_ratio, circularity) triple gets exactly one         *)
(* category, that of the first matching rule in the order                  *)
(*   1) circularity > 1.5 or (aspect_ratio < 1.5 and fill_ratio < 0.5):    *)
(*      round; 2) aspect_ratio > 2.5: aviator; 3) aspect_ratio > 1.8:      *)
(*      wayfarer if fill_ratio > 0.6, else sport; 4) aspect_ratio > 1.3:   *)
(*      square if fill_ratio > 0.7, else cat_eye; 5) otherwise round.      *)
(* C16_DecisionTree adds that the categories produced are exactly the six  *)
(* categories round, aviator, wayfarer, sport, square and cat_eye;         *)
(* C16_FiveCategories is the statement with five categories.               *)
(***************************************************************************)
\* The categories the tree produces on the grid of measurements.
ProducedCategories ==
    {ClassifyShape(im.det, Circularity(im.det)) : im \in {i \in ShapeImages : YieldsShape(i)}}

\* The category returned for one image is the one of the first matching rule.
C16_RuleOrder ==
    (pc = "shape_returned" /\ Len(image_paths) = 1 /\ image_paths[1].ok
        /\ YieldsShape(image_paths[1])) =>
        LET d == image_paths[1].det
            circ == IF d.h > 10 /\ d.w > 10 THEN d.circ ELSE 100
            r1 == circ > 150 \/ (100 * d.w < 150 * d.h /\ d.fill < 50)
            r2 == 100 * d.w > 250 * d.h
            r3 == 100 * d.w > 180 * d.h
            r4 == 100 * d.w > 130 * d.h
            allowed ==
                (IF r1 THEN {"round"} ELSE {})
                \cup (IF ~r1 /\ r2 THEN {"aviator"} ELSE {})
                \cup (IF ~r1 /\ ~r2 /\ r3 /\ d.fill > 60 THEN {"wayfarer"} ELSE {})
                \cup (IF ~r1 /\ ~r2 /\ r3 /\ ~(d.fill > 60) THEN {"sport"} ELSE {})
                \cup (IF ~r1 /\ ~r2 /\ ~r3 /\ r4 /\ d.fill > 70 THEN {"square"} ELSE {})
                \cup (IF ~r1 /\ ~r2 /\ ~r3 /\ r4 /\ ~(d.fill > 70) THEN {"cat_eye"} ELSE {})
                \cup (IF ~r1 /\ ~r2 /\ ~r3 /\ ~r4 THEN {"round"} ELSE {})
        IN  allowed = {result.detected_shape}

C16_DecisionTree ==
    /\ C16_RuleOrder
    /\ pc = "shape_returned" =>
          result.detected_shape \in
              {"round", "aviator", "wayfarer", "sport", "square", "cat_eye"}
    /\ pc = "call" =>
          ProducedCategories = {"round", "aviator", "wayfarer", "sport", "square", "cat_eye"}

C16_FiveCategories ==
    /\ C16_RuleOrder
    /\ pc = "shape_returned" => Cardinality(ProducedCategories) = 5

\* Aspect ratio 1.45 with fill ratio 0.5: the round rule does not match
\* (the fill ratio is not below 0.5) and the fourth rule gives cat_eye.
C16_Witness ==
    /\ pc = "shape_returned"
    /\ image_paths = <<ShapeImage(29, 20, 50, 100)>>
    /\ result.detected_shape = "cat_eye"

(***************************************************************************)
(* C17: detect_glasses_shape returns the most frequent category among the  *)
(* decisions of the images that yield one, on a tie the category that was  *)
(* encountered first in image order; an image without dark pixels or with  *)
(* a bounding box of zero width or height yields no decision; with no      *)
(* decision at all the result is round.                                    *)
(***************************************************************************)
\* The decisions of the images of imgs that yield one, in image order.
Decisions(imgs) ==
    LET yielding == SelectSeq(imgs, LAMBDA im : im.ok /\ im.det.dark
                                                  /\ im.det.w # 0 /\ im.det.h # 0)
    IN  [i \in 1..Len(yielding) |->
            ClassifyShape(yielding[i].det, Circularity(yielding[i].det))]

\* shape is the mode of decisions, the first encountered among the modes.
IsFirstMode(shape, decisions) ==
    \E i \in 1..Len(decisions) :
        /\ decisions[i] = shape
        /\ \A j \in 1..Len(decisions) : Count(decisions[j], decisions) <= Count(shape, decisions)
        /\ \A j \in 1..(i - 1) : Count(decisions[j], decisions) < Count(shape, decisions)

C17_ModeFirstEncountered ==
    (Decided /\ "detected_shape" \in DOMAIN result) =>
        IF Decisions(image_paths) = <<>>
        THEN result.detected_shape = "round"
        ELSE IsFirstMode(result.detected_shape, Decisions(image_paths))

(***************************************************************************)
(* C18: frameMetalness is 0.7 when the aggregated frame pixels are         *)
(* silver-like, 0.5 when they are gold-like, and 0.1 in every other case:  *)
(* no frame is classified metal by the third rule (low colour deviation    *)
(* with high brightness deviation) alone, and too few frame samples give   *)
(* plastic with 0.1.                                                       *)
(***************************************************************************)
C18_Metalness ==
    pc = "properties_returned" =>
        LET px == AllFramePixels(image_paths)
            silver == px # <<>> /\ IsSilver(px)
            gold == px # <<>> /\ IsGold(px)
        IN  /\ properties.frameMetalness = IF silver THEN 70 ELSE IF gold THEN 50 ELSE 10
            /\ properties.frameMaterial = IF silver \/ gold THEN "metal" ELSE "plastic"
            /\ px = <<>> => properties.frameMetalness = 10

\* Warm frame pixels of brightness about 95 and about 12: gold-like, metal
\* with metalness 0.5.
C18_Witness ==
    /\ pc = "properties_returned"
    /\ image_paths = <<PixelImage(<< <<99, 95, 90>>, <<14, 12, 10>> >>)>>
    /\ IsGold(AllFramePixels(image_paths))
    /\ properties.frameMaterial = "metal"
    /\ properties.frameMetalness = 50

(***************************************************************************)
(* C19: background suppression feeds only the embedding step.  The coarse  *)
(* shape descriptor that biases the ranking is the one of the first        *)
(* uploaded image as uploaded, not of its background-suppressed copy, and  *)
(* the properties of the record are those of the uploaded images as        *)
(* uploaded: a clip_cached record is the one this descriptor and these     *)
(* properties give.                                                        *)
(***************************************************************************)
C19_ShapeOnOriginal ==
    (Decided /\ "method" \in DOMAIN result /\ result.method = "clip_cached") =>
        result = ClipResult(sims, ref_filenames, analyze_frame_shape(image_paths[1]),
                            extract_glasses_properties(image_paths))

(***************************************************************************)
(* C20: cross-image aggregation is commutative.  For every permutation of  *)
(* the uploaded images the extracted properties and the category returned  *)
(* by detect_glasses_shape are the ones of the request, so the result does *)
(* not depend on the order of the images.  (The similarities are the       *)
(* oracle's choice for the set of uploads and carry no order here.)        *)
(***************************************************************************)
\* The image lists that hold the images of imgs in another order.
Reorderings(imgs) ==
    {[i \in 1..Len(imgs) |-> imgs[p[i]]] : p \in Permutations(1..Len(imgs))}

C20_OrderIndependent ==
    /\ properties # Nothing =>
          \A other \in Reorderings(image_paths) :
              extract_glasses_properties(other) = properties
    /\ (Decided /\ "detected_shape" \in DOMAIN result) =>
          \A other \in Reorderings(image_paths) :
              /\ detect_glasses_shape(other) = result.detected_shape
              /\ match_by_shape(other, properties, AVAILABLE_MODELS,
                                [kind |-> "list", models |-> models]) = result

(***************************************************************************)
(* C21: every shape descriptor has aspect_ratio > 0.  analyze_frame_shape  *)
(* returns aspect_ratio > 0 for every image, one whose dark pixels lie in  *)
(* a single column or a single row included, and 1.5 when there are no     *)
(* dark pixels; detect_glasses_shape classifies only images whose bounding *)
(* box has a non-zero width and a non-zero height.                         *)
(***************************************************************************)
C21_AspectRatioPositive ==
    /\ pc = "descriptor_returned" =>
          /\ result.uploaded_shape.aspect_ratio.den > 0
          /\ result.uploaded_shape.aspect_ratio.num > 0
          /\ ~image_paths[1].raw.dark =>
                 RatEq(result.uploaded_shape.aspect_ratio, Rat(15, 10))
    /\ pc = "shape_returned" =>
          \A i \in 1..Len(image_paths) :
              YieldsShape(image_paths[i]) =>
                  image_paths[i].det.w > 0 /\ image_paths[i].det.h > 0

(***************************************************************************)
(* C22: the two scores of an image sum to 1, so avg_glasses_score >        *)
(* avg_non_glasses_score already implies avg_glasses_score > 0.5 >= 0.25.  *)
(* With the classifier answering and a readable image, the 0.25 threshold  *)
(* never changes the decision: the upload is accepted exactly when         *)
(* avg_glasses_score > 0.5, and the "something other than glasses" reason  *)
(* is produced exactly when 0.25 <= avg_glasses_score <= 0.5.              *)
(***************************************************************************)
C22_ThresholdRedundant ==
    (pc = "validation_returned" /\ env.clip_v = "loaded" /\ env.infer = "ok") =>
        LET n == Cardinality(OkIdx)
            sum_g == SumOver(OkIdx, [i \in OkIdx |-> image_paths[i].g])
            sum_ng == SumOver(OkIdx, [i \in OkIdx |-> image_paths[i].ng])
        IN  /\ sum_g + sum_ng = 1000 * n
            /\ sum_g > sum_ng => (2 * sum_g > 1000 * n /\ sum_g >= 250 * n)
            /\ validation.valid <=> sum_g > sum_ng
            /\ validation.valid <=> 2 * sum_g > 1000 * n
            /\ validation.reason = "Image appears to be something other than glasses"
                  <=> (sum_g >= 250 * n /\ 2 * sum_g <= 1000 * n)

\* Two images with the scores 0.499 and 0.501: the average is exactly 0.5,
\* above the threshold, and the upload is rejected as something else.
C22_Witness ==
    /\ pc = "validation_returned"
    /\ env.infer = "ok"
    /\ Len(image_paths) = 2
    /\ image_paths[1].g = 499
    /\ image_paths[2].g = 501
    /\ ~validation.valid
    /\ validation.reason = "Image appears to be something other than glasses"

(***************************************************************************)
(* C23: after any sequence of set_available_models calls and match         *)
(* requests, match_by_shape reads the catalog from the most recently set   *)
(* list when that list is not empty and from models_cache.json only when   *)
(* it is empty; a result it returns has a best_model that is an element of *)
(* that catalog; with an empty catalog it returns no result and            *)
(* simple_match goes on to the generic or default entry; match_by_shape    *)
(* never modifies AVAILABLE_MODELS, which only set_available_models        *)
(* changes.                                                                *)
(***************************************************************************)
C23_CatalogSource ==
    [][/\ AVAILABLE_MODELS' # AVAILABLE_MODELS =>
             (pc = "idle" /\ pc' = "idle" /\ AVAILABLE_MODELS' \in ModelsPool)
       /\ pc = "match_by_shape" =>
             /\ AVAILABLE_MODELS' = AVAILABLE_MODELS
             /\ IF AVAILABLE_MODELS # <<>>
                THEN models' = AVAILABLE_MODELS /\ env'.cache = "unread"
                ELSE \E c \in CachePool :
                        /\ env'.cache = c.kind
                        /\ models' = IF c.kind = "list" THEN c.models ELSE <<>>
             /\ pc' = "emit" =>
                   /\ result'.method = "shape_match"
                   /\ \E i \in 1..Len(models') : result'.best_model = models'[i]
             /\ models' = <<>> => (pc' = "generic" /\ result' = result)
       /\ pc = "generic" =>
             (pc' = "emit" /\ result'.method \in {"fallback", "default"})]_vars

\* A request after set_available_models: the catalog is the list that was
\* set, the cache file was not read, and the model chosen for the detected
\* shape aviator is the second entry of that list.
C23_Witness ==
    /\ pc = "done"
    /\ AVAILABLE_MODELS = <<"round_black.glb", "aviator_gold.glb", "wayfarer_blue.glb">>
    /\ models = AVAILABLE_MODELS
    /\ env.cache = "unread"
    /\ outputs # <<>>
    /\ "method" \in DOMAIN outputs[1]
    /\ outputs[1].method = "shape_match"
    /\ outputs[1].best_model = "aviator_gold.glb"

====
